---- MODULE Spec2Model ----
(***************************************************************************)
(* Aadhaar Pulse: the batch analytics pipeline of src/src.                 *)
(*                                                                         *)
(*   raw CSV rows --load_and_merge_csvs--> per-source frames               *)
(*     --aggregate_dataset--> per-source monthly aggregates                *)
(*     --merge, fillna--> master_df --calculate_stress_index--> scored     *)
(*     --detect_anomalies--> analyzed --generate_recommendations--> recs   *)
(*                                                                         *)
(* A DataFrame is a record [cols, rows]: cols is the sequence of column    *)
(* names, rows the sequence of rows, a row being a function from the       *)
(* column names to cell values.  A numeric cell is a record [nan, n, d]:   *)
(* the exact rational n/d, or NaN.  Floating point is read as exact        *)
(* arithmetic over the rationals; rounding error is outside the model.     *)
(* Strings are TLA+ strings and str.title, str.strip, str.isnumeric and    *)
(* the substring test are computed character by character.                 *)
(***************************************************************************)
EXTENDS Integers, Sequences, FiniteSets, TLC

VARIABLES
    pc,             \* the stage that runs next
    raw_df,         \* load_and_merge_csvs: the concatenated CSV rows of one folder
    full_df,        \* load_and_merge_csvs: the frame it returns
    df_enrol,       \* get_monthly_level_data: the three loaded frames
    df_demo,
    df_bio,
    agg_enrol,      \* get_monthly_level_data: the three monthly aggregates
    agg_demo,
    agg_bio,
    master_df,      \* the table get_monthly_level_data returns
    raised,         \* the exception that ended the run, or "none"
    scored_df,      \* the table calculate_stress_index returns
    rescored_df,    \* calculate_stress_index applied to scored_df
    analyzed_df,    \* the table detect_anomalies returns
    recs_df,        \* the table generate_recommendations returns
    score,          \* categorize_risk: its argument
    risk_category   \* categorize_risk: its result

vars == <<pc, raw_df, full_df, df_enrol, df_demo, df_bio, agg_enrol, agg_demo,
          agg_bio, master_df, raised, scored_df, rescored_df, analyzed_df,
          recs_df, score, risk_category>>

(***************************************************************************)
(* Bounds of the model.                                                    *)
(***************************************************************************)
\* rows of one raw CSV frame
MaxRawRows == 2
\* rows of one loaded per-source frame (drawn from a pool of four rows)
MaxRows == 2
\* months of history of the district under study in detect_anomalies
MaxHist == 6
\* rows of the table given to generate_recommendations
MaxRecRows == 2
\* categorize_risk is tried on 0.00, 0.01, ..., MaxScore / 100
MaxScore == 10000
\* rows of the master table given to calculate_stress_index
MaxMasterRows == 2

(***************************************************************************)
(* Characters and strings.                                                 *)
(***************************************************************************)
Digits == "0123456789"
UpperCase == "ABCDEFGHIJKLMNOPQRSTUVWXYZ"
LowerCase == "abcdefghijklmnopqrstuvwxyz"
\* the characters of the model in code-point order
CodePoints == " &-" \o Digits \o UpperCase \o "_" \o LowerCase

CharAt(s, i) == SubSeq(s, i, i)

\* the position of character ch in s, 0 when absent
RECURSIVE IndexFrom(_, _, _)
IndexFrom(ch, s, i) ==
    IF i > Len(s) THEN 0
    ELSE IF CharAt(s, i) = ch THEN i
    ELSE IndexFrom(ch, s, i + 1)

IndexOf(ch, s) == IndexFrom(ch, s, 1)

IsDigit(ch) == IndexOf(ch, Digits) > 0
IsUpper(ch) == IndexOf(ch, UpperCase) > 0
IsLower(ch) == IndexOf(ch, LowerCase) > 0
IsCased(ch) == IsUpper(ch) \/ IsLower(ch)
IsSpace(ch) == ch = " "

ToUpper(ch) == IF IsLower(ch) THEN CharAt(UpperCase, IndexOf(ch, LowerCase)) ELSE ch
ToLower(ch) == IF IsUpper(ch) THEN CharAt(LowerCase, IndexOf(ch, UpperCase)) ELSE ch

\* str.lower
RECURSIVE StrLower(_)
StrLower(s) ==
    IF Len(s) = 0 THEN "" ELSE ToLower(Head(s)) \o StrLower(Tail(s))

\* str.title: a cased character is upper-cased when the character before it
\* is uncased (or it is the first), lower-cased otherwise
RECURSIVE TitleFrom(_, _)
TitleFrom(s, prevCased) ==
    IF Len(s) = 0 THEN ""
    ELSE LET ch == Head(s)
         IN (IF prevCased THEN ToLower(ch) ELSE ToUpper(ch))
                \o TitleFrom(Tail(s), IsCased(ch))

StrTitle(s) == TitleFrom(s, FALSE)

\* str.strip: leading and trailing whitespace removed
RECURSIVE LStrip(_)
LStrip(s) ==
    IF Len(s) > 0 /\ IsSpace(Head(s)) THEN LStrip(Tail(s)) ELSE s

RECURSIVE RStrip(_)
RStrip(s) ==
    IF Len(s) > 0 /\ IsSpace(CharAt(s, Len(s)))
    THEN RStrip(SubSeq(s, 1, Len(s) - 1))
    ELSE s

StrStrip(s) == RStrip(LStrip(s))

\* str.isnumeric: at least one character and every character numeric
StrIsNumeric(s) ==
    /\ Len(s) > 0
    /\ \A i \in 1..Len(s) : IsDigit(CharAt(s, i))

\* Python's `sub in s`
StrContains(sub, s) ==
    \E i \in 1..(Len(s) - Len(sub) + 1) : SubSeq(s, i, i + Len(sub) - 1) = sub

\* Python's str ordering (by code point), used where pandas sorts keys
RECURSIVE StrLess(_, _)
StrLess(a, b) ==
    IF Len(b) = 0 THEN FALSE
    ELSE IF Len(a) = 0 THEN TRUE
    ELSE IF Head(a) = Head(b) THEN StrLess(Tail(a), Tail(b))
    ELSE IndexOf(Head(a), CodePoints) < IndexOf(Head(b), CodePoints)

\* int() of a string of digits
RECURSIVE DigitsValue(_, _)
DigitsValue(s, acc) ==
    IF Len(s) = 0 THEN acc
    ELSE DigitsValue(Tail(s), 10 * acc + (IndexOf(Head(s), Digits) - 1))

(***************************************************************************)
(* Numbers: exact rationals, and NaN.                                      *)
(***************************************************************************)
Abs(x) == IF x < 0 THEN -x ELSE x

RECURSIVE GCD(_, _)
GCD(a, b) == IF b = 0 THEN a ELSE GCD(b, a % b)

\* the rational n/d (d # 0) in lowest terms with a positive denominator
Rat(n, d) ==
    LET g == GCD(Abs(n), Abs(d))
        s == IF d < 0 THEN -1 ELSE 1
    IN [nan |-> FALSE, n |-> (s * n) \div g, d |-> Abs(d) \div g]

Num(i) == Rat(i, 1)
NaN == [nan |-> TRUE, n |-> 0, d |-> 1]
IsNaN(x) == x.nan

\* arithmetic propagates NaN; division by zero of a non-zero value is not used
Add(x, y) == IF x.nan \/ y.nan THEN NaN ELSE Rat(x.n * y.d + y.n * x.d, x.d * y.d)
Sub(x, y) == IF x.nan \/ y.nan THEN NaN ELSE Rat(x.n * y.d - y.n * x.d, x.d * y.d)
Mul(x, y) == IF x.nan \/ y.nan THEN NaN ELSE Rat(x.n * y.n, x.d * y.d)
Div(x, y) == IF x.nan \/ y.nan \/ y.n = 0 THEN NaN ELSE Rat(x.n * y.d, x.d * y.n)

\* comparisons with NaN are False
Gt(x, y) == ~x.nan /\ ~y.nan /\ x.n * y.d > y.n * x.d
Eq(x, y) == ~x.nan /\ ~y.nan /\ x.n * y.d = y.n * x.d
Le(x, y) == ~x.nan /\ ~y.nan /\ x.n * y.d <= y.n * x.d

\* the sum of a sequence of numbers, NaN skipped (pandas skipna=True)
RECURSIVE SumSkipNa(_)
SumSkipNa(xs) ==
    IF Len(xs) = 0 THEN Num(0)
    ELSE IF Head(xs).nan THEN SumSkipNa(Tail(xs))
    ELSE Add(Head(xs), SumSkipNa(Tail(xs)))

\* the plain sum of a sequence of numbers (NaN propagates)
RECURSIVE Sum(_)
Sum(xs) == IF Len(xs) = 0 THEN Num(0) ELSE Add(Head(xs), Sum(Tail(xs)))

(***************************************************************************)
(* DataFrames.                                                             *)
(***************************************************************************)
Frame(cols, rows) == [cols |-> cols, rows |-> rows]

\* pd.DataFrame(): no columns, no rows
EmptyDataFrame == Frame(<<>>, <<>>)

\* DataFrame.empty: some axis has length 0
IsEmpty(df) == Len(df.cols) = 0 \/ Len(df.rows) = 0

ColSet(df) == {df.cols[i] : i \in 1..Len(df.cols)}
HasCol(df, c) == c \in ColSet(df)

\* the values of column c, top to bottom
Column(df, c) == [i \in 1..Len(df.rows) |-> df.rows[i][c]]

\* df[c] = vals: column c overwritten, or appended as the last column
SetColumn(df, c, vals) ==
    Frame(IF HasCol(df, c) THEN df.cols ELSE Append(df.cols, c),
          [i \in 1..Len(df.rows) |->
              [k \in ColSet(df) \cup {c} |->
                  IF k = c THEN vals[i] ELSE df.rows[i][k]]])

\* df[mask]: the rows whose mask entry is TRUE, in order
RECURSIVE MaskRows(_, _, _)
MaskRows(rows, mask, i) ==
    IF i > Len(rows) THEN <<>>
    ELSE (IF mask[i] THEN <<rows[i]>> ELSE <<>>) \o MaskRows(rows, mask, i + 1)

Filter(df, mask) == Frame(df.cols, MaskRows(df.rows, mask, 1))

\* df.columns = names: the columns renamed by position
RenameColumns(df, names) ==
    Frame(names,
          [i \in 1..Len(df.rows) |->
              [k \in {names[j] : j \in 1..Len(names)} |->
                  df.rows[i][df.cols[CHOOSE j \in 1..Len(names) : names[j] = k]]]])

(***************************************************************************)
(* data_loader.py: load_and_merge_csvs and clean_state_names.              *)
(***************************************************************************)
\* pandas' NaT; a parsed date is the integer yyyymmdd
NaT == 0

IsLeap(y) == (y % 4 = 0 /\ y % 100 # 0) \/ y % 400 = 0

DaysIn(m, y) ==
    IF m = 2 THEN (IF IsLeap(y) THEN 29 ELSE 28)
    ELSE IF m \in {4, 6, 9, 11} THEN 30
    ELSE 31

\* pd.to_datetime(s, format='%d-%m-%Y', errors='coerce') on strings that are
\* either dd-mm-yyyy with two-digit day and month or do not match the format
ToDatetime(s) ==
    IF /\ Len(s) = 10
       /\ CharAt(s, 3) = "-" /\ CharAt(s, 6) = "-"
       /\ \A i \in {1, 2, 4, 5, 7, 8, 9, 10} : IsDigit(CharAt(s, i))
    THEN LET d == DigitsValue(SubSeq(s, 1, 2), 0)
             m == DigitsValue(SubSeq(s, 4, 5), 0)
             y == DigitsValue(SubSeq(s, 7, 10), 0)
         IN IF y >= 1 /\ m \in 1..12 /\ d \in 1..DaysIn(m, y)
            THEN y * 10000 + m * 100 + d
            ELSE NaT
    ELSE NaT

\* the alias table, as (variant, canonical name) pairs
mapping == <<
    <<"Andaman & Nicobar Islands", "Andaman And Nicobar Islands">>,
    <<"Dadra & Nagar Haveli", "Dadra And Nagar Haveli">>,
    <<"Daman & Diu", "Daman And Diu">>,
    <<"Jammu & Kashmir", "Jammu And Kashmir">>,
    <<"Orissa", "Odisha">>,
    <<"Pondicherry", "Puducherry">>,
    <<"West  Bengal", "West Bengal">>,
    <<"West Bangal", "West Bengal">>,
    <<"Westbengal", "West Bengal">>,
    <<"West Bengli", "West Bengal">>,
    <<"Chhatisgarh", "Chhattisgarh">>,
    <<"Tamilnadu", "Tamil Nadu">>,
    <<"Uttaranchal", "Uttarakhand">>,
    <<"The Dadra And Nagar Haveli And Daman And Diu",
      "Dadra And Nagar Haveli And Daman And Diu">> >>

\* Series.replace(mapping) on one value: a value equal to a key becomes that
\* key's target, any other value is kept
Replace(s) ==
    IF \E i \in 1..Len(mapping) : mapping[i][1] = s
    THEN mapping[CHOOSE i \in 1..Len(mapping) : mapping[i][1] = s][2]
    ELSE s

valid_states == {
    "Andaman And Nicobar Islands", "Andhra Pradesh", "Arunachal Pradesh", "Assam", "Bihar",
    "Chandigarh", "Chhattisgarh", "Dadra And Nagar Haveli", "Daman And Diu",
    "Dadra And Nagar Haveli And Daman And Diu", "Delhi", "Goa", "Gujarat", "Haryana",
    "Himachal Pradesh", "Jammu And Kashmir", "Jharkhand", "Karnataka", "Kerala",
    "Ladakh", "Lakshadweep", "Madhya Pradesh", "Maharashtra", "Manipur", "Meghalaya",
    "Mizoram", "Nagaland", "Odisha", "Puducherry", "Punjab", "Rajasthan", "Sikkim",
    "Tamil Nadu", "Telangana", "Tripura", "Uttar Pradesh", "Uttarakhand", "West Bengal" }

\* a plausible slip: the whitelist filter of step 3 left out
clean_state_names_NoWhitelist(df) ==
    LET titled == SetColumn(df, "state",
                      [i \in 1..Len(df.rows) |-> StrStrip(StrTitle(df.rows[i]["state"]))])
        nonnum == Filter(titled,
                      [i \in 1..Len(titled.rows) |-> ~StrIsNumeric(titled.rows[i]["state"])])
    IN SetColumn(nonnum, "state",
                      [i \in 1..Len(nonnum.rows) |-> Replace(nonnum.rows[i]["state"])])

clean_state_names(df) ==
    LET titled == SetColumn(df, "state",
                      [i \in 1..Len(df.rows) |-> StrStrip(StrTitle(df.rows[i]["state"]))])
        nonnum == Filter(titled,
                      [i \in 1..Len(titled.rows) |-> ~StrIsNumeric(titled.rows[i]["state"])])
        mapped == SetColumn(nonnum, "state",
                      [i \in 1..Len(nonnum.rows) |-> Replace(nonnum.rows[i]["state"])])
    IN Filter(mapped,
              [i \in 1..Len(mapped.rows) |-> mapped.rows[i]["state"] \in valid_states])

\* lines 35-53, raw being the concatenation of the files that could be read
StandardizeFrame(raw) ==
    LET named == RenameColumns(raw,
                     [j \in 1..Len(raw.cols) |-> StrStrip(StrLower(raw.cols[j]))])
        dated == IF HasCol(named, "date")
                 THEN SetColumn(named, "date",
                          [i \in 1..Len(named.rows) |-> ToDatetime(named.rows[i]["date"])])
                 ELSE named
        stated == IF HasCol(dated, "state") THEN clean_state_names(dated) ELSE dated
    IN IF HasCol(stated, "district")
       THEN LET titled == SetColumn(stated, "district",
                              [i \in 1..Len(stated.rows) |->
                                  StrStrip(StrTitle(stated.rows[i]["district"]))])
            IN Filter(titled,
                      [i \in 1..Len(titled.rows) |->
                          ~StrIsNumeric(titled.rows[i]["district"])])
       ELSE stated

\* raw = pd.DataFrame() stands for a folder with no file, or none readable
load_and_merge_csvs(raw) ==
    IF Len(raw.cols) = 0 THEN EmptyDataFrame ELSE StandardizeFrame(raw)

(***************************************************************************)
(* data_loader.py: get_monthly_level_data.                                 *)
(***************************************************************************)
group_cols == <<"date", "state", "district">>
key_cols == <<"month", "state", "district">>

SeqSet(q) == {q[i] : i \in 1..Len(q)}

\* date.dt.to_period('M').dt.to_timestamp(): the first day of the month
MonthStart(date) == IF date = NaT THEN NaT ELSE (date \div 100) * 100 + 1

KeyOf(row) == <<row["month"], row["state"], row["district"]>>

\* the order in which pandas sorts (month, state, district) keys
KeyLess(a, b) ==
    \/ a[1] < b[1]
    \/ a[1] = b[1] /\ StrLess(a[2], b[2])
    \/ a[1] = b[1] /\ a[2] = b[2] /\ StrLess(a[3], b[3])

RECURSIVE SortKeys(_)
SortKeys(S) ==
    IF S = {} THEN <<>>
    ELSE LET k == CHOOSE x \in S : \A y \in S \ {x} : KeyLess(x, y)
         IN <<k>> \o SortKeys(S \ {k})

\* the rows of df with key k, in order
RowsOfKey(df, k) == SelectSeq(df.rows, LAMBDA r : KeyOf(r) = k)

\* line 125, df['month'] = ...: the assignment is made on the frame passed in
WithMonth(df) ==
    SetColumn(df, "month", [i \in 1..Len(df.rows) |-> MonthStart(df.rows[i]["date"])])

\* line 128
numeric_cols(df) ==
    SelectSeq(df.cols, LAMBDA c : c \notin SeqSet(group_cols) \cup {"month", "pincode"})

\* lines 131-134: groupby(...)[numeric_cols].sum().reset_index() drops the
\* groups whose month is NaT and sorts the groups by key
GroupSum(df, prefix) ==
    LET nums == numeric_cols(df)
        keys == SortKeys({KeyOf(df.rows[i]) : i \in 1..Len(df.rows)}
                            \ {k \in {KeyOf(df.rows[i]) : i \in 1..Len(df.rows)} : k[1] = NaT})
        named == [j \in 1..Len(nums) |-> prefix \o "_" \o nums[j]]
    IN Frame(key_cols \o named,
             [g \in 1..Len(keys) |->
                 [c \in SeqSet(key_cols) \cup SeqSet(named) |->
                     IF c = "month" THEN keys[g][1]
                     ELSE IF c = "state" THEN keys[g][2]
                     ELSE IF c = "district" THEN keys[g][3]
                     ELSE LET src == nums[CHOOSE j \in 1..Len(nums) : named[j] = c]
                              grp == RowsOfKey(df, keys[g])
                          IN SumSkipNa([i \in 1..Len(grp) |-> grp[i][src]])]])

\* the frame aggregate_dataset leaves behind in its argument
aggregate_dataset_arg(df) == IF IsEmpty(df) THEN df ELSE WithMonth(df)

\* the frame aggregate_dataset returns
aggregate_dataset(df, prefix) ==
    IF IsEmpty(df) THEN EmptyDataFrame ELSE GroupSum(WithMonth(df), prefix)

\* DataFrame.merge raises KeyError when a frame lacks a column named in `on`
MergeRaises(left, right) ==
    \E c \in SeqSet(key_cols) : ~HasCol(left, c) \/ ~HasCol(right, c)

\* the cells of one merged row: from l and r where given, NaN where the side
\* has no row for the key
MergedRow(k, left, right, l, r, hasL, hasR) ==
    [c \in ColSet(left) \cup ColSet(right) |->
        IF c = "month" THEN k[1]
        ELSE IF c = "state" THEN k[2]
        ELSE IF c = "district" THEN k[3]
        ELSE IF HasCol(left, c) THEN (IF hasL THEN l[c] ELSE NaN)
        ELSE (IF hasR THEN r[c] ELSE NaN)]

\* the merged rows of key k: every pairing of a left row with a right row
RowsForKey(k, left, right) ==
    LET ls == RowsOfKey(left, k)
        rs == RowsOfKey(right, k)
    IN IF Len(rs) = 0
       THEN [i \in 1..Len(ls) |-> MergedRow(k, left, right, ls[i], ls[i], TRUE, FALSE)]
       ELSE IF Len(ls) = 0
       THEN [j \in 1..Len(rs) |-> MergedRow(k, left, right, rs[j], rs[j], FALSE, TRUE)]
       ELSE [p \in 1..(Len(ls) * Len(rs)) |->
                MergedRow(k, left, right,
                          ls[((p - 1) \div Len(rs)) + 1], rs[((p - 1) % Len(rs)) + 1],
                          TRUE, TRUE)]

RECURSIVE ConcatRowsForKeys(_, _, _)
ConcatRowsForKeys(keys, left, right) ==
    IF Len(keys) = 0 THEN <<>>
    ELSE RowsForKey(Head(keys), left, right) \o ConcatRowsForKeys(Tail(keys), left, right)

\* left.merge(right, on=['month','state','district'], how='outer'), for frames
\* that both hold the key columns: the union of the keys, sorted
merge_outer(left, right) ==
    LET keys == SortKeys({KeyOf(left.rows[i]) : i \in 1..Len(left.rows)}
                            \cup {KeyOf(right.rows[i]) : i \in 1..Len(right.rows)})
    IN Frame(left.cols \o SelectSeq(right.cols, LAMBDA c : c \notin SeqSet(key_cols)),
             ConcatRowsForKeys(keys, left, right))

\* DataFrame.fillna(0) on the metric cells
fillna0(df) ==
    Frame(df.cols,
          [i \in 1..Len(df.rows) |->
              [c \in ColSet(df) |->
                  IF c \in SeqSet(key_cols) THEN df.rows[i][c]
                  ELSE IF IsNaN(df.rows[i][c]) THEN Num(0)
                  ELSE df.rows[i][c]]])

\* lines 144-148 on the three aggregates
MergeAll(e, d, b) == fillna0(merge_outer(merge_outer(e, d), b))

\* whether lines 144-145 raise on the three aggregates
MergeAllRaises(e, d, b) ==
    MergeRaises(e, d) \/ MergeRaises(merge_outer(e, d), b)

(***************************************************************************)
(* stress_index.py: calculate_stress_index.                                *)
(***************************************************************************)
\* lines 24-26: a column belongs to a category when its name contains the tag
CategoryCols(df, tag) ==
    SelectSeq(df.cols,
              LAMBDA c : StrContains(tag \o "_", c)
                            /\ c \notin {tag \o "_state", tag \o "_district"})

\* df[cols].sum(axis=1)
RowSums(df, cols) ==
    [i \in 1..Len(df.rows) |-> SumSkipNa([j \in 1..Len(cols) |-> df.rows[i][cols[j]]])]

\* lines 24-30: the three lists are taken first, then the totals are assigned
WithTotals(df) ==
    LET bio_cols == CategoryCols(df, "bio")
        demo_cols == CategoryCols(df, "demo")
        enrol_cols == CategoryCols(df, "enrol")
        df1 == SetColumn(df, "total_bio_updates", RowSums(df, bio_cols))
        df2 == SetColumn(df1, "total_demo_updates", RowSums(df1, demo_cols))
    IN SetColumn(df2, "total_enrolments", RowSums(df2, enrol_cols))

RECURSIVE MinOf(_)
MinOf(xs) ==
    IF Len(xs) = 1 THEN xs[1]
    ELSE LET m == MinOf(Tail(xs)) IN IF Le(Head(xs), m) THEN Head(xs) ELSE m

RECURSIVE MaxOf(_)
MaxOf(xs) ==
    IF Len(xs) = 1 THEN xs[1]
    ELSE LET m == MaxOf(Tail(xs)) IN IF Le(m, Head(xs)) THEN Head(xs) ELSE m

\* a plausible slip: min-max scaling without the zero-range guard
MinMaxScale_NoGuard(xs) ==
    LET data_min == MinOf(xs)
        data_range == Sub(MaxOf(xs), data_min)
    IN [i \in 1..Len(xs) |-> Div(Sub(xs[i], data_min), data_range)]

\* MinMaxScaler().fit_transform on one column (feature_range (0, 1)):
\* scale_ = 1 / data_range with a zero range replaced by 1,
\* min_ = 0 - data_min * scale_, result X * scale_ + min_
MinMaxScale(xs) ==
    LET data_min == MinOf(xs)
        data_range == Sub(MaxOf(xs), data_min)
        scale == Div(Num(1), IF Eq(data_range, Num(0)) THEN Num(1) ELSE data_range)
        min_ == Sub(Num(0), Mul(data_min, scale))
    IN [i \in 1..Len(xs) |-> Add(Mul(xs[i], scale), min_)]

w_bio == Rat(4, 10)
w_demo == Rat(3, 10)
w_enrol == Rat(3, 10)

\* a plausible slip: the tiers compared with >= instead of >
categorize_risk_Inclusive(s) ==
    IF Gt(s, Num(80)) \/ Eq(s, Num(80)) THEN "Red"
    ELSE IF Gt(s, Num(50)) \/ Eq(s, Num(50)) THEN "Amber"
    ELSE "Green"

categorize_risk(s) ==
    IF Gt(s, Num(80)) THEN "Red"
    ELSE IF Gt(s, Num(50)) THEN "Amber"
    ELSE "Green"

\* lines 39-67 on the frame that holds the totals
WithScores(df) ==
    LET n == Len(df.rows)
        nb == MinMaxScale(Column(df, "total_bio_updates"))
        nd == MinMaxScale(Column(df, "total_demo_updates"))
        ne == MinMaxScale(Column(df, "total_enrolments"))
        df1 == SetColumn(SetColumn(SetColumn(df, "norm_bio", nb), "norm_demo", nd),
                         "norm_enrol", ne)
        raw == [i \in 1..n |->
                   Add(Add(Mul(w_bio, df1.rows[i]["norm_bio"]),
                           Mul(w_demo, df1.rows[i]["norm_demo"])),
                       Mul(w_enrol, df1.rows[i]["norm_enrol"]))]
        df2 == SetColumn(df1, "stress_score_raw", raw)
        df3 == SetColumn(df2, "stress_score",
                         [i \in 1..n |-> Mul(df2.rows[i]["stress_score_raw"], Num(100))])
    IN SetColumn(df3, "risk_category",
                 [i \in 1..n |-> categorize_risk(df3.rows[i]["stress_score"])])

\* an empty table is returned as it is; otherwise a copy is scored
calculate_stress_index(df) ==
    IF IsEmpty(df) THEN df ELSE WithScores(WithTotals(df))

(***************************************************************************)
(* models.py: detect_anomalies.                                            *)
(*                                                                         *)
(* A z_score cell is [nan, sgn, sq]: NaN, or the value of sign sgn whose   *)
(* square is the rational sq (the standard deviation is a square root).    *)
(***************************************************************************)
Sign(x) == IF x.n > 0 THEN 1 ELSE IF x.n < 0 THEN -1 ELSE 0

ZNaN == [nan |-> TRUE, sgn |-> 0, sq |-> Num(0)]

\* the stress_score values of the rows grouped with row i by
\* groupby('district'), NaN left out
GroupScores(df, i) ==
    LET grp == SelectSeq(df.rows,
                   LAMBDA r : r["district"] = df.rows[i]["district"]
                                 /\ ~IsNaN(r["stress_score"]))
    IN [j \in 1..Len(grp) |-> grp[j]["stress_score"]]

\* transform('mean')
GroupMean(xs) == IF Len(xs) = 0 THEN NaN ELSE Div(Sum(xs), Num(Len(xs)))

\* the square of transform('std'): the sample variance (ddof = 1), NaN for
\* fewer than two values
GroupVar(xs) ==
    IF Len(xs) < 2 THEN NaN
    ELSE LET m == GroupMean(xs)
         IN Div(Sum([j \in 1..Len(xs) |-> Mul(Sub(xs[j], m), Sub(xs[j], m))]),
                Num(Len(xs) - 1))

\* line 54: (stress_score - mean) / stds.replace(0, 1)
ZScore(x, xs) ==
    LET dev == Sub(x, GroupMean(xs))
        var == GroupVar(xs)
        var1 == IF Eq(var, Num(0)) THEN Num(1) ELSE var
    IN IF IsNaN(dev) \/ IsNaN(var1) THEN ZNaN
       ELSE [nan |-> FALSE, sgn |-> Sign(dev), sq |-> Div(Mul(dev, dev), var1)]

\* a plausible slip: z_score > 2.0 without abs()
IsAnomalous_NoAbs(z) == ~z.nan /\ z.sgn > 0 /\ Gt(z.sq, Num(4))

\* line 57: z_score.abs() > 2.0
IsAnomalous(z) == ~z.nan /\ Gt(z.sq, Num(4))

\* the frame detect_anomalies returns, which is the frame it was given:
\* both columns are assigned on the argument
detect_anomalies(df) ==
    IF IsEmpty(df) THEN df
    ELSE LET z == [i \in 1..Len(df.rows) |->
                      ZScore(df.rows[i]["stress_score"], GroupScores(df, i))]
             df1 == SetColumn(df, "z_score", z)
         IN SetColumn(df1, "is_anomaly",
                      [i \in 1..Len(df1.rows) |-> IsAnomalous(df1.rows[i]["z_score"])])

(***************************************************************************)
(* recommender.py: generate_recommendations.                               *)
(***************************************************************************)
\* row.get(c, default)
Get(row, c, default) == IF c \in DOMAIN row THEN row[c] ELSE default

\* lines 31-33: pd.isna is applied to the three norms, not to stress_score
NaTo0(x) == IF IsNaN(x) THEN Num(0) ELSE x

\* "; ".join(recs)
RECURSIVE Join(_)
Join(recs) ==
    IF Len(recs) = 0 THEN ""
    ELSE IF Len(recs) = 1 THEN recs[1]
    ELSE recs[1] \o "; " \o Join(Tail(recs))

RecEnrol == "Deploy Mobile Enrolment Camps (High New Enrolments)"
RecBio == "Initiate School/Center-based Biometric Update Drive (High Bio Load)"
RecDemo == "Increase Demographic Update Capacity (High Correction Volume)"
RecUrgent == "URGENT: Allocate Special Budget for Capacity Expansion"
RecDefault == "Maintain Current Operations"

\* a plausible slip: elif instead of if, so that only the first match fires
RowRecs_FirstMatch(row) ==
    LET norm_enrol == NaTo0(Get(row, "norm_enrol", Num(0)))
        norm_bio == NaTo0(Get(row, "norm_bio", Num(0)))
        norm_demo == NaTo0(Get(row, "norm_demo", Num(0)))
        stress_score == Get(row, "stress_score", Num(0))
    IN IF Gt(norm_enrol, Rat(5, 10)) THEN <<RecEnrol>>
       ELSE IF Gt(norm_bio, Rat(5, 10)) THEN <<RecBio>>
       ELSE IF Gt(norm_demo, Rat(5, 10)) THEN <<RecDemo>>
       ELSE IF Gt(stress_score, Num(70)) THEN <<RecUrgent>>
       ELSE <<RecDefault>>

\* lines 19-48: the recs list of one row
RowRecs(row) ==
    LET norm_enrol == NaTo0(Get(row, "norm_enrol", Num(0)))
        norm_bio == NaTo0(Get(row, "norm_bio", Num(0)))
        norm_demo == NaTo0(Get(row, "norm_demo", Num(0)))
        stress_score == Get(row, "stress_score", Num(0))
        recs == (IF Gt(norm_enrol, Rat(5, 10)) THEN <<RecEnrol>> ELSE <<>>)
                   \o (IF Gt(norm_bio, Rat(5, 10)) THEN <<RecBio>> ELSE <<>>)
                   \o (IF Gt(norm_demo, Rat(5, 10)) THEN <<RecDemo>> ELSE <<>>)
                   \o (IF Gt(stress_score, Num(70)) THEN <<RecUrgent>> ELSE <<>>)
    IN IF Len(recs) = 0 THEN <<RecDefault>> ELSE recs

rec_cols == <<"state", "district", "month", "recommendations">>

generate_recommendations(df) ==
    IF IsEmpty(df) THEN EmptyDataFrame
    ELSE Frame(rec_cols,
               [i \in 1..Len(df.rows) |->
                   [c \in SeqSet(rec_cols) |->
                       IF c = "recommendations" THEN Join(RowRecs(df.rows[i]))
                       ELSE df.rows[i][c]]])

(***************************************************************************)
(* Inputs.                                                                 *)
(***************************************************************************)
\* the sequences over S of length at most n
SeqsUpTo(S, n) == UNION {[1..k -> S] : k \in 0..n}

\* ---- raw CSV frames (load_and_merge_csvs) ----
RawHeaders == { <<"date", "state", "district", "pincode", "age_0_5">>,
                <<"Date", "State ", " District", "Pincode", "Age_0_5">> }

RawStates == {
    "orissa", " Orissa ", "ODISHA", "123", " 123 ", "12a", "Mumbai", "nan", "bihar",
    "Tamil Nadu", "tamilnadu", "west  bengal", "West Bangal", "WESTBENGAL",
    "west bengli", "chhatisgarh", "uttaranchal", "pondicherry",
    "andaman & nicobar islands", "dadra & nagar haveli", "daman & diu",
    "jammu & kashmir", "the dadra and nagar haveli and daman and diu" }

\* (district, date) as they stand in the file
RawTails == { <<"puri", "05-01-2025">>, <<" CUTTACK ", "31-02-2025">>,
              <<"456", "2025-02-20">> }

\* the first row of a frame is any (state, tail); the rows after it are drawn
\* from a smaller pool
FirstPicks == RawStates \X RawTails
RestPicks == {"Orissa", "Mumbai", "123"} \X {<<"puri", "05-01-2025">>, <<"456", "2025-02-20">>}

RawPicks ==
    {<<>>} \cup {<<f>> \o r : f \in FirstPicks, r \in SeqsUpTo(RestPicks, MaxRawRows - 1)}

\* row i of a raw frame; its pincode tells the rows of a frame apart
RawRow(h, i, pick) ==
    [c \in SeqSet(h) |->
        IF c = h[1] THEN pick[2][2]
        ELSE IF c = h[2] THEN pick[1]
        ELSE IF c = h[3] THEN pick[2][1]
        ELSE IF c = h[4] THEN Num(751000 + i)
        ELSE Num(i)]

RawFrames ==
    {EmptyDataFrame} \cup
    {Frame(h, [i \in 1..Len(picks) |-> RawRow(h, i, picks[i])]) :
        h \in RawHeaders, picks \in RawPicks}

\* ---- loaded per-source frames (get_monthly_level_data) ----
loaded_cols == <<"date", "state", "district", "pincode">>
enrol_metrics == <<"age_0_5", "age_5_17", "age_18_greater">>
demo_metrics == <<"demo_age_5_17", "demo_age_17_">>
bio_metrics == <<"bio_age_5_17", "bio_age_17_">>

\* (date, state, district) of the rows a loaded frame is drawn from: two days
\* of one district-month, another district-month, an unparseable date
Pool == << <<20250105, "Odisha", "Puri">>, <<20250120, "Odisha", "Puri">>,
           <<20250203, "Odisha", "Cuttack">>, <<NaT, "Bihar", "Patna">> >>

RECURSIVE Ascending(_)
Ascending(S) ==
    IF S = {} THEN <<>>
    ELSE LET m == CHOOSE x \in S : \A y \in S : x <= y
         IN <<m>> \o Ascending(S \ {m})

LoadedRow(metrics, r) ==
    [c \in SeqSet(loaded_cols) \cup SeqSet(metrics) |->
        IF c = "date" THEN Pool[r][1]
        ELSE IF c = "state" THEN Pool[r][2]
        ELSE IF c = "district" THEN Pool[r][3]
        ELSE IF c = "pincode" THEN Num(751000 + r)
        ELSE Num(10 * r + (CHOOSE j \in 1..Len(metrics) : metrics[j] = c))]

\* pd.DataFrame() (no file), or at most MaxRows rows of the pool, in order
LoadedFrames(metrics) ==
    {EmptyDataFrame} \cup
    {Frame(loaded_cols \o metrics,
           [i \in 1..Cardinality(S) |-> LoadedRow(metrics, Ascending(S)[i])]) :
        S \in {T \in SUBSET (1..Len(Pool)) : Cardinality(T) <= MaxRows}}

\* ---- master tables (calculate_stress_index) ----
MetricVals == {0, 1, 3}

Prefixed(prefix, metrics) == [j \in 1..Len(metrics) |-> prefix \o "_" \o metrics[j]]

master_cols ==
    key_cols \o Prefixed("enrol", enrol_metrics) \o Prefixed("demo", demo_metrics)
        \o Prefixed("bio", bio_metrics)

\* the first day of month m of 2025
Month(m) == 20250001 + 100 * m

\* row i of a master table: one district, month i, every metric of a source
\* holding that source's value v[1] (enrol), v[2] (demo), v[3] (bio)
MasterRow(i, v) ==
    [c \in SeqSet(master_cols) |->
        IF c = "month" THEN Month(i)
        ELSE IF c = "state" THEN "Odisha"
        ELSE IF c = "district" THEN "Puri"
        ELSE IF c \in SeqSet(Prefixed("enrol", enrol_metrics)) THEN Num(v[1])
        ELSE IF c \in SeqSet(Prefixed("demo", demo_metrics)) THEN Num(v[2])
        ELSE Num(v[3])]

MasterTables ==
    {Frame(master_cols, [i \in 1..Len(vs) |-> MasterRow(i, vs[i])]) :
        vs \in SeqsUpTo(MetricVals \X MetricVals \X MetricVals, MaxMasterRows)}

\* ---- scored tables (detect_anomalies) ----
scored_cols == <<"month", "state", "district", "stress_score">>
ScoreValues == {10, 90}
\* the district under study, and two districts with at most one month each
Geos == << <<"Odisha", "Puri">>, <<"Bihar", "Puri">>, <<"Odisha", "Cuttack">> >>

\* the table of the three histories h[1], h[2], h[3] (month m of Geos[g] has
\* stress_score h[g][m]), its rows in key order
ScoredTable(h) ==
    LET present == {p \in (1..Len(Geos)) \X (1..MaxHist) : p[2] <= Len(h[p[1]])}
        keys == SortKeys({<<Month(p[2]), Geos[p[1]][1], Geos[p[1]][2]>> : p \in present})
    IN Frame(scored_cols,
             [i \in 1..Len(keys) |->
                 [c \in SeqSet(scored_cols) |->
                     IF c = "month" THEN keys[i][1]
                     ELSE IF c = "state" THEN keys[i][2]
                     ELSE IF c = "district" THEN keys[i][3]
                     ELSE LET g == CHOOSE x \in 1..Len(Geos) :
                                       Geos[x] = <<keys[i][2], keys[i][3]>>
                              m == CHOOSE x \in 1..MaxHist : Month(x) = keys[i][1]
                          IN Num(h[g][m])]])

ScoredTables ==
    {ScoredTable(<<h1, h2, h3>>) :
        h1 \in SeqsUpTo(ScoreValues, MaxHist),
        h2 \in SeqsUpTo(ScoreValues, 1),
        h3 \in SeqsUpTo(ScoreValues, 1)}

\* ---- tables given to generate_recommendations ----
RecColSets == { <<"month", "state", "district", "norm_bio", "norm_demo", "norm_enrol",
                  "stress_score">>,
                <<"month", "state", "district", "norm_bio", "norm_demo", "stress_score">>,
                <<"month", "state", "district">> }

\* (norm_enrol, norm_bio, norm_demo, stress_score) of one row
RecValues ==
    {NaN, Rat(1, 2), Rat(3, 5)} \X {Rat(1, 5), Rat(3, 5)} \X {Rat(1, 5), Rat(3, 5)}
        \X {NaN, Num(70), Num(75)}

RecRow(cols, i, v) ==
    [c \in SeqSet(cols) |->
        IF c = "month" THEN Month(i)
        ELSE IF c = "state" THEN "Odisha"
        ELSE IF c = "district" THEN "Puri"
        ELSE IF c = "norm_enrol" THEN v[1]
        ELSE IF c = "norm_bio" THEN v[2]
        ELSE IF c = "norm_demo" THEN v[3]
        ELSE v[4]]

RecTables ==
    {Frame(cols, [i \in 1..Len(vs) |-> RecRow(cols, i, vs[i])]) :
        cols \in RecColSets, vs \in SeqsUpTo(RecValues, MaxRecRows)}

(***************************************************************************)
(* The state machine.                                                      *)
(***************************************************************************)
geoVars == <<raw_df, full_df>>
aggVars == <<df_enrol, df_demo, df_bio, agg_enrol, agg_demo, agg_bio>>
riskVars == <<score, risk_category>>

\* the variables a specification does not use stay at these values
IdleGeo == raw_df = EmptyDataFrame /\ full_df = EmptyDataFrame
IdleAgg ==
    /\ df_enrol = EmptyDataFrame /\ df_demo = EmptyDataFrame /\ df_bio = EmptyDataFrame
    /\ agg_enrol = EmptyDataFrame /\ agg_demo = EmptyDataFrame /\ agg_bio = EmptyDataFrame
IdleRisk == score = Num(0) /\ risk_category = ""
IdleTables ==
    /\ master_df = EmptyDataFrame /\ scored_df = EmptyDataFrame
    /\ rescored_df = EmptyDataFrame /\ analyzed_df = EmptyDataFrame
    /\ recs_df = EmptyDataFrame

\* load_and_merge_csvs(folder_path, dataset_type)
LoadAndMergeCsvs ==
    /\ pc = "load"
    /\ full_df' = load_and_merge_csvs(raw_df)
    /\ pc' = "loaded"
    /\ UNCHANGED <<raw_df, aggVars, master_df, raised, scored_df, rescored_df,
                   analyzed_df, recs_df, riskVars>>

\* agg_enrol = aggregate_dataset(df_enrol, "enrol")
AggregateEnrol ==
    /\ pc = "agg_enrol"
    /\ agg_enrol' = aggregate_dataset(df_enrol, "enrol")
    /\ df_enrol' = aggregate_dataset_arg(df_enrol)
    /\ pc' = "agg_demo"
    /\ UNCHANGED <<geoVars, df_demo, df_bio, agg_demo, agg_bio, master_df, raised,
                   scored_df, rescored_df, analyzed_df, recs_df, riskVars>>

\* agg_demo = aggregate_dataset(df_demo, "demo")
AggregateDemo ==
    /\ pc = "agg_demo"
    /\ agg_demo' = aggregate_dataset(df_demo, "demo")
    /\ df_demo' = aggregate_dataset_arg(df_demo)
    /\ pc' = "agg_bio"
    /\ UNCHANGED <<geoVars, df_enrol, df_bio, agg_enrol, agg_bio, master_df, raised,
                   scored_df, rescored_df, analyzed_df, recs_df, riskVars>>

\* agg_bio = aggregate_dataset(df_bio, "bio")
AggregateBio ==
    /\ pc = "agg_bio"
    /\ agg_bio' = aggregate_dataset(df_bio, "bio")
    /\ df_bio' = aggregate_dataset_arg(df_bio)
    /\ pc' = "merge"
    /\ UNCHANGED <<geoVars, df_enrol, df_demo, agg_enrol, agg_demo, master_df, raised,
                   scored_df, rescored_df, analyzed_df, recs_df, riskVars>>

\* lines 144-150: the two merges raise KeyError, or the master table is returned
Merge ==
    /\ pc = "merge"
    /\ IF MergeAllRaises(agg_enrol, agg_demo, agg_bio)
       THEN /\ raised' = "KeyError"
            /\ pc' = "failed"
            /\ UNCHANGED master_df
       ELSE /\ master_df' = MergeAll(agg_enrol, agg_demo, agg_bio)
            /\ pc' = "score"
            /\ UNCHANGED raised
    /\ UNCHANGED <<geoVars, aggVars, scored_df, rescored_df, analyzed_df, recs_df,
                   riskVars>>

\* scored_df = calculate_stress_index(master_df)
CalculateStressIndex ==
    /\ pc = "score"
    /\ scored_df' = calculate_stress_index(master_df)
    /\ pc' = "detect"
    /\ UNCHANGED <<geoVars, aggVars, master_df, raised, rescored_df, analyzed_df,
                   recs_df, riskVars>>

\* calculate_stress_index(scored_df): the stage applied to its own output
Rescore ==
    /\ pc = "detect"
    /\ rescored_df' = calculate_stress_index(scored_df)
    /\ pc' = "rescored"
    /\ UNCHANGED <<geoVars, aggVars, master_df, raised, scored_df, analyzed_df,
                   recs_df, riskVars>>

\* analyzed_df = detect_anomalies(scored_df): the frame returned is the frame
\* passed in, with both columns assigned on it
DetectAnomalies ==
    /\ pc = "detect"
    /\ analyzed_df' = detect_anomalies(scored_df)
    /\ scored_df' = detect_anomalies(scored_df)
    /\ pc' = "recommend"
    /\ UNCHANGED <<geoVars, aggVars, master_df, raised, rescored_df, recs_df, riskVars>>

\* recs_df = generate_recommendations(analyzed_df)
GenerateRecommendations ==
    /\ pc = "recommend"
    /\ recs_df' = generate_recommendations(analyzed_df)
    /\ pc' = "done"
    /\ UNCHANGED <<geoVars, aggVars, master_df, raised, scored_df, rescored_df,
                   analyzed_df, riskVars>>

\* line 67: categorize_risk applied to one stress_score
CategorizeRisk ==
    /\ pc = "categorize"
    /\ risk_category' = categorize_risk(score)
    /\ pc' = "categorized"
    /\ UNCHANGED <<geoVars, aggVars, master_df, raised, scored_df, rescored_df,
                   analyzed_df, recs_df, score>>

\* ---- the whole pipeline, from the three loaded frames ----
Init ==
    /\ pc = "agg_enrol"
    /\ df_enrol \in LoadedFrames(enrol_metrics)
    /\ df_demo \in LoadedFrames(demo_metrics)
    /\ df_bio \in LoadedFrames(bio_metrics)
    /\ agg_enrol = EmptyDataFrame /\ agg_demo = EmptyDataFrame /\ agg_bio = EmptyDataFrame
    /\ raised = "none"
    /\ IdleGeo /\ IdleTables /\ IdleRisk

Next ==
    \/ AggregateEnrol
    \/ AggregateDemo
    \/ AggregateBio
    \/ Merge
    \/ CalculateStressIndex
    \/ DetectAnomalies
    \/ GenerateRecommendations

Spec == Init /\ [][Next]_vars

\* ---- load_and_merge_csvs on every raw frame ----
InitGeo ==
    /\ pc = "load"
    /\ raw_df \in RawFrames
    /\ full_df = EmptyDataFrame
    /\ raised = "none"
    /\ IdleAgg /\ IdleTables /\ IdleRisk

SpecGeo == InitGeo /\ [][LoadAndMergeCsvs]_vars

\* ---- calculate_stress_index on every master table, and on its own output ----
InitStress ==
    /\ pc = "score"
    /\ master_df \in MasterTables
    /\ scored_df = EmptyDataFrame /\ rescored_df = EmptyDataFrame
    /\ analyzed_df = EmptyDataFrame /\ recs_df = EmptyDataFrame
    /\ raised = "none"
    /\ IdleGeo /\ IdleAgg /\ IdleRisk

NextStress == CalculateStressIndex \/ Rescore

SpecStress == InitStress /\ [][NextStress]_vars

\* ---- detect_anomalies on every scored table ----
InitAnomaly ==
    /\ pc = "detect"
    /\ scored_df \in ScoredTables
    /\ master_df = EmptyDataFrame /\ rescored_df = EmptyDataFrame
    /\ analyzed_df = EmptyDataFrame /\ recs_df = EmptyDataFrame
    /\ raised = "none"
    /\ IdleGeo /\ IdleAgg /\ IdleRisk

SpecAnomaly == InitAnomaly /\ [][DetectAnomalies]_vars

\* ---- generate_recommendations on every table of RecTables ----
InitRec ==
    /\ pc = "recommend"
    /\ analyzed_df \in RecTables
    /\ master_df = EmptyDataFrame /\ scored_df = EmptyDataFrame
    /\ rescored_df = EmptyDataFrame /\ recs_df = EmptyDataFrame
    /\ raised = "none"
    /\ IdleGeo /\ IdleAgg /\ IdleRisk

SpecRec == InitRec /\ [][GenerateRecommendations]_vars

\* ---- categorize_risk on every score 0.00, 0.01, ..., MaxScore / 100 ----
InitRisk ==
    /\ pc = "categorize"
    /\ score \in {Rat(k, 100) : k \in 0..MaxScore}
    /\ risk_category = ""
    /\ raised = "none"
    /\ IdleGeo /\ IdleAgg /\ IdleTables

SpecRisk == InitRisk /\ [][CategorizeRisk]_vars

(***************************************************************************)
(* Properties of get_monthly_level_data (specification Spec).              *)
(***************************************************************************)
\* the (month, state, district) keys of a frame; none when it has no key column
KeysIn(df) ==
    IF \A c \in SeqSet(key_cols) : HasCol(df, c)
    THEN {KeyOf(df.rows[i]) : i \in 1..Len(df.rows)}
    ELSE {}

AggKeys == KeysIn(agg_enrol) \cup KeysIn(agg_demo) \cup KeysIn(agg_bio)

\* get_monthly_level_data has ended, by returning or by raising
Merged == pc \notin {"agg_enrol", "agg_demo", "agg_bio", "merge"}

\* the metric columns a source's aggregate holds
MetricsOf(agg) == ColSet(agg) \ SeqSet(key_cols)

\* master_df holds one record for each key of the aggregates, none for another
\* key, and exactly 0 in the metrics of a source without a row for the key
CompleteMaster ==
    /\ \A k \in AggKeys :
          Cardinality({i \in 1..Len(master_df.rows) : KeyOf(master_df.rows[i]) = k}) = 1
    /\ \A i \in 1..Len(master_df.rows) :
          /\ KeyOf(master_df.rows[i]) \in AggKeys
          /\ \A agg \in {agg_enrol, agg_demo, agg_bio} :
                /\ MetricsOf(agg) \subseteq ColSet(master_df)
                /\ KeyOf(master_df.rows[i]) \notin KeysIn(agg) =>
                      \A c \in MetricsOf(agg) : master_df.rows[i][c] = Num(0)
          /\ \A c \in ColSet(master_df) \ SeqSet(key_cols) : ~IsNaN(master_df.rows[i][c])

\* C1: for any three per-source aggregates the master table holds exactly one
\* record for every (month, state, district) key present in at least one of
\* them, no record for any other key, and exactly 0 (never NaN) in every
\* metric of a source that has no row for the key.
AggregationComplete == Merged => CompleteMaster

\* The same statement for the runs in which the two merges do not raise: it
\* holds whenever a master table is returned.
AggregationCompleteWhenReturned == (Merged /\ raised = "none") => CompleteMaster

\* a run that returned a master table with a key held by one source only
ReturnedWithPartialKey ==
    /\ Merged /\ raised = "none"
    /\ \E k \in AggKeys : k \in KeysIn(agg_enrol) /\ k \notin KeysIn(agg_bio)

\* C2: when one or two sources load as an empty table while at least one
\* source has data, get_monthly_level_data does not fail: it returns a master
\* table holding the keys of the available sources; only the absence of all
\* three sources is fatal.
MissingSourceTolerated ==
    (Merged /\ \E df \in {df_enrol, df_demo, df_bio} : ~IsEmpty(df)) =>
        /\ raised = "none"
        /\ KeysIn(master_df) = AggKeys

\* C9: no stage modifies the table it receives: aggregate_dataset,
\* calculate_stress_index, detect_anomalies and generate_recommendations each
\* leave their input table as it was.
NoWriteBack ==
    [][/\ pc = "agg_enrol" => df_enrol' = df_enrol
       /\ pc = "agg_demo" => df_demo' = df_demo
       /\ pc = "agg_bio" => df_bio' = df_bio
       /\ pc = "score" => master_df' = master_df
       /\ pc = "detect" => scored_df' = scored_df
       /\ pc = "recommend" => analyzed_df' = analyzed_df]_vars

(***************************************************************************)
(* Properties of calculate_stress_index (SpecStress, SpecRisk).            *)
(***************************************************************************)
\* C3 as stated: the risk category is a function of the stress score alone,
\* and 80.0 is Amber, 80.01 is Red, 50.0 is Amber and 49.99 is Green.
RiskBoundary ==
    pc = "categorized" =>
        /\ score = Rat(8000, 100) => risk_category = "Amber"
        /\ score = Rat(8001, 100) => risk_category = "Red"
        /\ score = Rat(5000, 100) => risk_category = "Amber"
        /\ score = Rat(4999, 100) => risk_category = "Green"

\* C3, amended: the risk category is a function of the stress score alone:
\* Red above 80, Amber above 50 and up to 80, Green up to 50; so 80.0 is
\* Amber, 80.01 is Red, 50.0 is Green, 50.01 is Amber and 49.99 is Green.
RiskBoundaryAmended ==
    pc = "categorized" =>
        /\ score = Rat(8000, 100) => risk_category = "Amber"
        /\ score = Rat(8001, 100) => risk_category = "Red"
        /\ score = Rat(5000, 100) => risk_category = "Green"
        /\ score = Rat(5001, 100) => risk_category = "Amber"
        /\ score = Rat(4999, 100) => risk_category = "Green"
        /\ (risk_category = "Red") <=> (score.n > 80 * score.d)
        /\ (risk_category = "Amber") <=>
              (score.n > 50 * score.d /\ score.n <= 80 * score.d)
        /\ (risk_category = "Green") <=> (score.n <= 50 * score.d)

\* categorize_risk has run on a score of exactly 50
RiskBoundaryReached ==
    pc = "categorized" /\ score = Num(50) /\ risk_category = "Green"

\* the (total, norm) column pairs of a scored table
NormPairs == { <<"total_bio_updates", "norm_bio">>, <<"total_demo_updates", "norm_demo">>,
               <<"total_enrolments", "norm_enrol">> }

\* the stage has returned scored_df
Scored == pc \in {"detect", "rescored"}

HasPrefix(pre, c) == Len(c) >= Len(pre) /\ SubSeq(c, 1, Len(pre)) = pre

\* the sum over the columns of df whose name starts with pre
PrefixTotal(df, i, pre) ==
    LET cols == SelectSeq(df.cols, LAMBDA c : HasPrefix(pre, c))
    IN Sum([j \in 1..Len(cols) |-> df.rows[i][cols[j]]])

TotalCols == {"total_bio_updates", "total_demo_updates", "total_enrolments"}

\* C10: each metric column counts in the total of the source that prefixed it
\* and in no other, and no derived column counts in any total; so scoring a
\* table that is already scored leaves the three totals unchanged.
TotalsByPrefix ==
    /\ (Scored /\ ~IsEmpty(master_df)) =>
          \A i \in 1..Len(scored_df.rows) :
              /\ scored_df.rows[i]["total_bio_updates"] = PrefixTotal(master_df, i, "bio_")
              /\ scored_df.rows[i]["total_demo_updates"] = PrefixTotal(master_df, i, "demo_")
              /\ scored_df.rows[i]["total_enrolments"] = PrefixTotal(master_df, i, "enrol_")
    /\ pc = "rescored" =>
          \A i \in 1..Len(scored_df.rows) : \A c \in TotalCols :
              rescored_df.rows[i][c] = scored_df.rows[i][c]

(***************************************************************************)
(* Properties of detect_anomalies (SpecAnomaly).                           *)
(***************************************************************************)
\* detect_anomalies has returned analyzed_df
Detected == pc = "recommend"

\* the integer stress scores of the rows of analyzed_df that share row i's
\* district name
SameDistrict(i) ==
    LET grp == SelectSeq(analyzed_df.rows,
                   LAMBDA r : r["district"] = analyzed_df.rows[i]["district"])
    IN [j \in 1..Len(grp) |-> grp[j]["stress_score"].n]

RECURSIVE IntSum(_)
IntSum(xs) == IF Len(xs) = 0 THEN 0 ELSE Head(xs) + IntSum(Tail(xs))

\* |x - mean| > 2 * std over the scores xs, with the sample standard
\* deviation, in integers: (n-1) (n x - S)^2 > 4 * sum_j (n x_j - S)^2
BeyondTwoSigma(x, xs) ==
    LET n == Len(xs)
        S == IntSum(xs)
    IN /\ n >= 2
       /\ (n - 1) * (n * x - S) * (n * x - S)
             > 4 * IntSum([j \in 1..n |-> (n * xs[j] - S) * (n * xs[j] - S)])

\* the frame holds one district only, with the history 10, 10, 10, 10, 90
IsExampleHistory(df) ==
    /\ Len(df.rows) = 5
    /\ \A i \in 1..5 :
          /\ df.rows[i]["state"] = "Odisha" /\ df.rows[i]["district"] = "Puri"
          /\ df.rows[i]["month"] = Month(i)
          /\ df.rows[i]["stress_score"] = Num(IF i = 5 THEN 90 ELSE 10)

\* is_anomaly is true exactly for the records with |z_score| > 2.0
FlagIsBeyondTwoSigma ==
    \A i \in 1..Len(analyzed_df.rows) :
        LET r == analyzed_df.rows[i]
        IN /\ r["is_anomaly"] <=> (~r["z_score"].nan /\ Gt(r["z_score"].sq, Num(4)))
           /\ r["is_anomaly"] <=> BeyondTwoSigma(r["stress_score"].n, SameDistrict(i))

\* C5 as stated: is_anomaly is true exactly for the records with
\* |z_score| > 2.0, and in the history [10,10,10,10,90] the record with score
\* 90 is flagged and the four records with score 10 are not.
AnomalyBoundary ==
    Detected =>
        /\ FlagIsBeyondTwoSigma
        /\ IsExampleHistory(analyzed_df) =>
              /\ analyzed_df.rows[5]["is_anomaly"]
              /\ \A i \in 1..4 : ~analyzed_df.rows[i]["is_anomaly"]

\* C5, amended: is_anomaly is true exactly for the records with
\* |z_score| > 2.0, z_score being taken with the sample standard deviation;
\* in a table that holds only a district with the history [10,10,10,10,90]
\* the record with score 90 has z_score^2 = 16/5 (z about 1.79) and none of
\* the five records is flagged.
AnomalyBoundaryAmended ==
    Detected =>
        /\ FlagIsBeyondTwoSigma
        /\ IsExampleHistory(analyzed_df) =>
              /\ analyzed_df.rows[5]["z_score"] = [nan |-> FALSE, sgn |-> 1, sq |-> Rat(16, 5)]
              /\ \A i \in 1..5 : ~analyzed_df.rows[i]["is_anomaly"]

\* detect_anomalies has run on the history [10,10,10,10,90]
AnomalyExampleReached == Detected /\ IsExampleHistory(analyzed_df)

\* C6: every record gets a defined z_score; when the district's standard
\* deviation is 0, or undefined for fewer than two points, it is replaced by
\* 1, so that z_score is stress_score minus the district mean (0 for a single
\* point) and is_anomaly is False.
ZScoreAlwaysDefined ==
    Detected =>
        \A i \in 1..Len(analyzed_df.rows) :
            LET r == analyzed_df.rows[i]
                xs == SameDistrict(i)
            IN /\ ~r["z_score"].nan
               /\ (\A j \in 1..Len(xs) : xs[j] = xs[1]) =>
                     /\ r["z_score"].sq = Num(0)
                     /\ ~r["is_anomaly"]

\* The part of C6 the code does keep: a district of two or more equal scores
\* (standard deviation 0) gets z_score 0 and no flag.
ZeroStdGuarded ==
    Detected =>
        \A i \in 1..Len(analyzed_df.rows) :
            LET r == analyzed_df.rows[i]
                xs == SameDistrict(i)
            IN (Len(xs) >= 2 /\ \A j \in 1..Len(xs) : xs[j] = xs[1]) =>
                  /\ r["z_score"] = [nan |-> FALSE, sgn |-> 0, sq |-> Num(0)]
                  /\ ~r["is_anomaly"]

\* the stress scores of the rows of analyzed_df that share row i's
\* (state, district) key
SameKey(i) ==
    LET grp == SelectSeq(analyzed_df.rows,
                   LAMBDA r : /\ r["state"] = analyzed_df.rows[i]["state"]
                              /\ r["district"] = analyzed_df.rows[i]["district"])
    IN [j \in 1..Len(grp) |-> grp[j]["stress_score"]]

\* C11: the mean and standard deviation used for a record are taken over the
\* stress scores of the record's own district, identified by its (state,
\* district) key: z_score and is_anomaly are what the scores of that key
\* alone give, whatever the records of other districts are, a district of the
\* same name in another state included.
StatsPerStateDistrict ==
    Detected =>
        \A i \in 1..Len(analyzed_df.rows) :
            LET r == analyzed_df.rows[i]
                z == ZScore(r["stress_score"], SameKey(i))
            IN /\ r["z_score"] = z
               /\ r["is_anomaly"] <=> IsAnomalous(z)

\* What the code keeps instead: the statistics of a record are taken over
\* every row that carries its district name, in whichever state.
StatsPerDistrictName ==
    Detected =>
        \A i \in 1..Len(analyzed_df.rows) :
            LET r == analyzed_df.rows[i]
                xs == SameDistrict(i)
                z == ZScore(r["stress_score"], [j \in 1..Len(xs) |-> Num(xs[j])])
            IN /\ r["z_score"] = z
               /\ r["is_anomaly"] <=> IsAnomalous(z)

\* detect_anomalies has run on a table with two districts named Puri, one in
\* Odisha and one in Bihar
SameNameInTwoStates ==
    /\ Detected
    /\ \E i, j \in 1..Len(analyzed_df.rows) :
          /\ analyzed_df.rows[i]["district"] = analyzed_df.rows[j]["district"]
          /\ analyzed_df.rows[i]["state"] # analyzed_df.rows[j]["state"]

(***************************************************************************)
(* Properties of generate_recommendations (SpecRec).                       *)
(***************************************************************************)
\* the value of column c of an input row, a missing or NaN value read as 0
ValueOr0(row, c) ==
    IF c \notin DOMAIN row THEN Num(0)
    ELSE IF IsNaN(row[c]) THEN Num(0)
    ELSE row[c]

\* whether the value v, a rational, exceeds the integer ratio a / b
Exceeds(v, a, b) == v.n * b > a * v.d

\* the recommendations text the four rules give, written out rule by rule
ExpectedText(row) ==
    LET e == Exceeds(ValueOr0(row, "norm_enrol"), 1, 2)
        b == Exceeds(ValueOr0(row, "norm_bio"), 1, 2)
        d == Exceeds(ValueOr0(row, "norm_demo"), 1, 2)
        u == Exceeds(ValueOr0(row, "stress_score"), 70, 1)
    IN IF ~e /\ ~b /\ ~d /\ ~u THEN "Maintain Current Operations"
       ELSE (IF e THEN "Deploy Mobile Enrolment Camps (High New Enrolments)" ELSE "")
            \o (IF e /\ (b \/ d \/ u) THEN "; " ELSE "")
            \o (IF b THEN "Initiate School/Center-based Biometric Update Drive (High Bio Load)"
                ELSE "")
            \o (IF b /\ (d \/ u) THEN "; " ELSE "")
            \o (IF d THEN "Increase Demographic Update Capacity (High Correction Volume)"
                ELSE "")
            \o (IF d /\ u THEN "; " ELSE "")
            \o (IF u THEN "URGENT: Allocate Special Budget for Capacity Expansion" ELSE "")

Retained(j) ==
    \E i \in 1..Len(full_df.rows) :
        full_df.rows[i]["pincode"] = raw_df.rows[j][raw_df.cols[4]]

\* the state of raw row j in full_df
RetainedState(j) ==
    full_df.rows[CHOOSE i \in 1..Len(full_df.rows) :
                    full_df.rows[i]["pincode"] = raw_df.rows[j][raw_df.cols[4]]]["state"]

AliasKeys == {mapping[k][1] : k \in 1..Len(mapping)}
AliasTarget(t) == mapping[CHOOSE k \in 1..Len(mapping) : mapping[k][1] = t][2]

\* C8: every retained row has a whitelisted state and a district that is not
\* purely numeric; a row whose trimmed, title-cased state is purely numeric is
\* dropped; a row whose state is an alias is rewritten to the canonical name,
\* which is in the whitelist, and is retained (unless its district is
\* numeric); a row whose state after aliasing is not whitelisted is dropped.
GeographyFilter ==
    pc = "loaded" =>
        /\ \A i \in 1..Len(full_df.rows) :
              /\ full_df.rows[i]["state"] \in valid_states
              /\ ~StrIsNumeric(full_df.rows[i]["district"])
        /\ \A k \in 1..Len(mapping) : mapping[k][2] \in valid_states
        /\ \A j \in 1..Len(raw_df.rows) :
              LET st == raw_df.rows[j][raw_df.cols[2]]
                  t == StrStrip(StrTitle(st))
                  numDistrict ==
                      StrIsNumeric(StrStrip(StrTitle(raw_df.rows[j][raw_df.cols[3]])))
              IN /\ StrIsNumeric(t) => ~Retained(j)
                 /\ st \in {"123", " 123 ", "Mumbai", "12a", "nan"} => ~Retained(j)
                 /\ (t \in AliasKeys /\ ~numDistrict) =>
                       Retained(j) /\ RetainedState(j) = AliasTarget(t)
                 /\ (st \in {"orissa", " Orissa "} /\ ~numDistrict) =>
                       Retained(j) /\ RetainedState(j) = "Odisha"
                 /\ (t \notin AliasKeys /\ t \notin valid_states) => ~Retained(j)
                 /\ numDistrict => ~Retained(j)

\* a frame whose first row, state "orissa", is kept as "Odisha" and whose
\* second row, state "Mumbai", is dropped
GeographyFilterReached ==
    /\ pc = "loaded" /\ Len(raw_df.rows) = 2 /\ Len(full_df.rows) = 1
    /\ raw_df.rows[1][raw_df.cols[2]] = "orissa"
    /\ raw_df.rows[2][raw_df.cols[2]] = "Mumbai"
    /\ full_df.rows[1]["state"] = "Odisha"
    /\ full_df.rows[1]["district"] = "Puri"

====
